---- MODULE Spec2Model ----
(***************************************************************************)
(* De Bruijn graph assembly (debruijn.py): k-mer counting, graph           *)
(* construction, bubble simplification, tip trimming, contig extraction.   *)
(*                                                                         *)
(* A nucleotide string is a sequence of one-letter strings, so slicing     *)
(* (key[:-1], key[1:], j[n:]) is SubSeq.  A graph (nx.DiGraph) is a record *)
(*   nodes : the nodes in iteration (insertion) order,                     *)
(*   edges : the edges <<u, v, weight>> in insertion order;                *)
(* successor and predecessor lists are the edges from / into a node in     *)
(* insertion order, as in networkx's adjacency dictionaries.  Python list  *)
(* indices i are TLA+ indices i + 1.  An average weight is the exact       *)
(* rational <<sum, count>> (statistics.mean and statistics.stdev compute   *)
(* exactly on fractions before rounding).                                  *)
(***************************************************************************)
EXTENDS Integers, Sequences, FiniteSets, TLC

\* ---------------------------------------------------------------- bounds
MaxKmers == 5      \* distinct k-mers in a drawn k-mer dictionary
MaxCount == 2      \* largest occurrence count of a drawn k-mer
MaxReadLen == 4    \* longest drawn read (contig extraction)
MaxNum == 5        \* largest weight numerator drawn for the path selector
MaxLen == 3        \* largest path length drawn for the path selector

Alphabet == <<"A", "C", "G", "T">>
Letters == {Alphabet[i] : i \in 1..Len(Alphabet)}

\* line 219: noeud_ancetre = None (no node label holds the letter "None")
None == <<"None">>

\* ------------------------------------------------------- sequence helpers
SeqToSet(s) == {s[i] : i \in 1..Len(s)}
InSeq(x, s) == \E i \in 1..Len(s) : s[i] = x
Last(s) == s[Len(s)]

RECURSIVE Flatten(_)
Flatten(ss) == IF ss = <<>> THEN <<>> ELSE Head(ss) \o Flatten(Tail(ss))

\* list.pop(i): the list without its element at index i
Pop(s, i) == SubSeq(s, 1, i - 1) \o SubSeq(s, i + 1, Len(s))

RECURSIVE SumSeq(_)
SumSeq(s) == IF s = <<>> THEN 0 ELSE Head(s) + SumSeq(Tail(s))

\* exact rationals <<numerator, denominator>>, denominator > 0
RatEq(a, b) == a[1] * b[2] = b[1] * a[2]
RatLess(a, b) == a[1] * b[2] < b[1] * a[2]

\* ------------------------------------------------------------ nx.DiGraph
EmptyGraph == [nodes |-> <<>>, edges |-> <<>>]
NodeSet(G) == SeqToSet(G.nodes)
HasEdge(G, u, v) == \E i \in 1..Len(G.edges) : G.edges[i][1] = u /\ G.edges[i][2] = v
NumEdges(G) == Len(G.edges)

\* graph.get_edge_data(u, v)["weight"]
EdgeWeight(G, u, v) ==
    LET i == CHOOSE k \in 1..Len(G.edges) : G.edges[k][1] = u /\ G.edges[k][2] = v
    IN G.edges[i][3]

\* graph.successors(n) / graph.predecessors(n), in insertion order
Successors(G, n) ==
    LET out == SelectSeq(G.edges, LAMBDA e : e[1] = n)
    IN [i \in 1..Len(out) |-> out[i][2]]
Predecessors(G, n) ==
    LET inc == SelectSeq(G.edges, LAMBDA e : e[2] = n)
    IN [i \in 1..Len(inc) |-> inc[i][1]]

\* G.add_edge(u, v, weight=w): new endpoints are appended to the node order,
\* an existing edge keeps its place and takes the new weight
AddEdge(G, u, v, w) ==
    LET n1 == IF InSeq(u, G.nodes) THEN G.nodes ELSE Append(G.nodes, u)
        n2 == IF InSeq(v, n1) THEN n1 ELSE Append(n1, v)
        es == IF HasEdge(G, u, v)
              THEN [i \in 1..Len(G.edges) |->
                      IF G.edges[i][1] = u /\ G.edges[i][2] = v
                      THEN <<u, v, w>> ELSE G.edges[i]]
              ELSE Append(G.edges, <<u, v, w>>)
    IN [nodes |-> n2, edges |-> es]

\* graph.remove_nodes_from(S): absent nodes are ignored, incident edges go
RemoveNodesFrom(G, S) ==
    [nodes |-> SelectSeq(G.nodes, LAMBDA n : n \notin S),
     edges |-> SelectSeq(G.edges, LAMBDA e : e[1] \notin S /\ e[2] \notin S)]

\* nx.isolates(graph): the nodes of degree 0
Isolates(G) ==
    {n \in NodeSet(G) : \A i \in 1..Len(G.edges) : G.edges[i][1] # n /\ G.edges[i][2] # n}

\* nx.all_simple_paths(graph, source, target): a preorder search over the successor
\* lists, a path is emitted when the target is met and not extended further
RECURSIVE SimplePathsFrom(_, _, _, _)
SimplePathsFrom(G, visited, target, i) ==
    LET succ == Successors(G, Last(visited)) IN
    IF i > Len(succ) THEN <<>>
    ELSE LET child == succ[i]
             here == IF InSeq(child, visited) THEN <<>>
                     ELSE IF child = target THEN <<Append(visited, child)>>
                     ELSE SimplePathsFrom(G, Append(visited, child), target, 1)
         IN here \o SimplePathsFrom(G, visited, target, i + 1)

all_simple_paths(G, source, target) ==
    IF source = target THEN <<>> ELSE SimplePathsFrom(G, <<source>>, target, 1)

\* nx.ancestors(G, v) with v itself added
RECURSIVE AncestorsClosure(_, _)
AncestorsClosure(G, S) ==
    LET P == S \cup {e[1] : e \in {x \in SeqToSet(G.edges) : x[2] \in S}}
    IN IF P = S THEN S ELSE AncestorsClosure(G, P)

\* the descent of nx.lowest_common_ancestor: move to the first successor that
\* is a common ancestor too, until there is none
RECURSIVE Descend(_, _, _)
Descend(G, common, c) ==
    LET lower == SelectSeq(Successors(G, c), LAMBDA x : x \in common)
    IN IF lower = <<>> THEN c ELSE Descend(G, common, lower[1])

\* nx.lowest_common_ancestor(graph, v, w) on an acyclic graph: None without a
\* common ancestor; otherwise the descent starts from an arbitrary element of
\* a hash set, so every start is a possible outcome
lowest_common_ancestor(G, v, w) ==
    LET common == AncestorsClosure(G, {v}) \cap AncestorsClosure(G, {w})
    IN IF common = {} THEN {None} ELSE {Descend(G, common, c) : c \in common}

\* nx.is_directed_acyclic_graph(graph), checked by lowest_common_ancestor
IsDag(G) ==
    \A i \in 1..Len(G.edges) :
        G.edges[i][2] \notin AncestorsClosure(G, {G.edges[i][1]})

\* ------------------------------------------------- k-mers and the graph
VARIABLES reads, kmer_size, kmer_dict, graph, pc, err,
          starting_nodes, ending_nodes, call, contigs
vars == <<reads, kmer_size, kmer_dict, graph, pc, err,
          starting_nodes, ending_nodes, call, contigs>>

\* lines 99-100: read[i : i + kmer_size] for i in range(len(read) - kmer_size + 1)
cut_kmer(read, k) ==
    IF Len(read) - k + 1 <= 0 THEN <<>>
    ELSE [i \in 1..(Len(read) - k + 1) |-> SubSeq(read, i, i + k - 1)]

\* line 112: kmer_dict[kmer] = kmer_dict.get(kmer, 0) + 1, a dict in insertion
\* order, held as a sequence of <<kmer, count>>
RECURSIVE CountKmers(_, _)
CountKmers(d, kmers) ==
    IF kmers = <<>> THEN d
    ELSE LET km == Head(kmers)
             d2 == IF \E i \in 1..Len(d) : d[i][1] = km
                   THEN [i \in 1..Len(d) |->
                           IF d[i][1] = km THEN <<km, d[i][2] + 1>> ELSE d[i]]
                   ELSE Append(d, <<km, 1>>)
         IN CountKmers(d2, Tail(kmers))

\* lines 109-114, over the reads that read_fastq yields
build_kmer_dict(rs, k) ==
    CountKmers(<<>>, Flatten([i \in 1..Len(rs) |-> cut_kmer(rs[i], k)]))

\* lines 123-128: G.add_edge(key[:-1], key[1:], weight=value)
RECURSIVE AddKmerEdges(_, _)
AddKmerEdges(G, items) ==
    IF items = <<>> THEN G
    ELSE LET key == Head(items)[1]
         IN AddKmerEdges(AddEdge(G, SubSeq(key, 1, Len(key) - 1),
                                 SubSeq(key, 2, Len(key)), Head(items)[2]),
                         Tail(items))

build_graph(kd) == AddKmerEdges(EmptyGraph, kd)

\* lines 291-296 and 305-310
get_starting_nodes(G) == SelectSeq(G.nodes, LAMBDA n : Len(Predecessors(G, n)) = 0)
get_sink_nodes(G) == SelectSeq(G.nodes, LAMBDA n : Len(Successors(G, n)) = 0)

\* ------------------------------------------------------- path removal
PathEdges(path) == [i \in 1..(Len(path) - 1) |-> <<path[i], path[i + 1]>>]

\* lines 141-143: graph.remove_edge raises NetworkXError on an absent edge and
\* leaves the graph as mutated so far
RECURSIVE RemoveEdgesSeq(_, _)
RemoveEdgesSeq(G, es) ==
    IF es = <<>> THEN [graph |-> G, err |-> ""]
    ELSE LET u == Head(es)[1]
             v == Head(es)[2]
         IN IF ~HasEdge(G, u, v)
            THEN [graph |-> G, err |-> "remove_edge: NetworkXError"]
            ELSE RemoveEdgesSeq(
                   [G EXCEPT !.edges = SelectSeq(G.edges, LAMBDA e : ~(e[1] = u /\ e[2] = v))],
                   Tail(es))

\* lines 145-148 without line 150: the isolated nodes stay
PruneKeepingIsolated(G, path_list, delete_entry_node, delete_sink_node) ==
    LET g1 == IF delete_entry_node
              THEN RemoveNodesFrom(G, {path_list[i][1] : i \in 1..Len(path_list)})
              ELSE G
    IN IF delete_sink_node
       THEN RemoveNodesFrom(g1, {Last(path_list[i]) : i \in 1..Len(path_list)})
       ELSE g1

\* lines 145-150
PruneAfterRemoval(G, path_list, delete_entry_node, delete_sink_node) ==
    LET g1 == IF delete_entry_node
              THEN RemoveNodesFrom(G, {path_list[i][1] : i \in 1..Len(path_list)})
              ELSE G
        g2 == IF delete_sink_node
              THEN RemoveNodesFrom(g1, {Last(path_list[i]) : i \in 1..Len(path_list)})
              ELSE g1
    IN RemoveNodesFrom(g2, Isolates(g2))

\* lines 131-152; the result is [graph, err], err = "" when it returns
remove_paths(G, path_list, delete_entry_node, delete_sink_node) ==
    LET r == RemoveEdgesSeq(G, Flatten([i \in 1..Len(path_list) |-> PathEdges(path_list[i])]))
    IN IF r.err # "" THEN r
       ELSE [graph |-> PruneAfterRemoval(r.graph, path_list, delete_entry_node, delete_sink_node),
             err |-> ""]

\* ------------------------------------------------------- path selection
\* statistics.stdev(xs) > 0: the values are not all equal
SpreadW(ws) == \E i, j \in 1..Len(ws) : ~RatEq(ws[i], ws[j])
SpreadL(ls) == \E i, j \in 1..Len(ls) : ls[i] # ls[j]

\* xs.index(max(xs)): the first index of a maximal value
IndexOfMaxW(ws) ==
    CHOOSE i \in 1..Len(ws) :
        /\ \A j \in 1..Len(ws) : ~RatLess(ws[i], ws[j])
        /\ \A j \in 1..(i - 1) : RatLess(ws[j], ws[i])
IndexOfMaxL(ls) ==
    CHOOSE i \in 1..Len(ls) :
        /\ \A j \in 1..Len(ls) : ls[j] <= ls[i]
        /\ \A j \in 1..(i - 1) : ls[j] < ls[i]

\* lines 174-179 with the two tests swapped: the length decides before the weight
selected_path_index_length_first(path_length, weight_avg_list) ==
    IF SpreadL(path_length) THEN {IndexOfMaxL(path_length)}
    ELSE IF SpreadW(weight_avg_list) THEN {IndexOfMaxW(weight_avg_list)}
    ELSE 1..Len(weight_avg_list)

\* lines 171-179: the indices selected_path_index can take (randint draws any)
selected_path_index(path_length, weight_avg_list) ==
    IF SpreadW(weight_avg_list) THEN {IndexOfMaxW(weight_avg_list)}
    ELSE IF SpreadL(path_length) THEN {IndexOfMaxL(path_length)}
    ELSE 1..Len(weight_avg_list)

\* lines 167-184; outcomes [graph, err, selected], selected = 0 when no index
\* was computed
select_best_path(G, path_list, path_length, weight_avg_list, delete_entry_node, delete_sink_node) ==
    IF Len(path_list) = 1 THEN {[graph |-> G, err |-> "", selected |-> 0]}
    ELSE IF Len(path_list) = 0
    THEN {[graph |-> G, err |-> "stdev: StatisticsError", selected |-> 0]}
    ELSE {LET r == remove_paths(G, Pop(path_list, k), delete_entry_node, delete_sink_node)
          IN [graph |-> r.graph, err |-> r.err, selected |-> k] :
          k \in selected_path_index(path_length, weight_avg_list)}

\* line 194: the mean over graph.subgraph(path).edges, the edges of the graph
\* with both ends among the nodes of the path
path_average_weight(G, path) ==
    LET sub == SelectSeq(G.edges, LAMBDA e : InSeq(e[1], path) /\ InSeq(e[2], path))
    IN <<SumSeq([i \in 1..Len(sub) |-> sub[i][3]]), Len(sub)>>

\* --------------------------------------------------- bubble simplification
\* what is known of the latest resolution step: the function, the graph it
\* was given, the nodes passed to solve_bubble, and the arguments and choice of
\* select_best_path
NoCall ==
    [fn |-> "none", before |-> EmptyGraph, anc |-> None, desc |-> None,
     paths |-> <<>>, lengths |-> <<>>, weights |-> <<>>, selected |-> 0]

Outcome(fn, G, anc, desc, paths, lengths, weights, o) ==
    [graph |-> o.graph, err |-> o.err,
     call |-> [fn |-> fn, before |-> G, anc |-> anc, desc |-> desc, paths |-> paths,
               lengths |-> lengths, weights |-> weights, selected |-> o.selected]]

NodeNotFound(fn, G, anc, desc) ==
    [graph |-> G, err |-> "all_simple_paths: NodeNotFound",
     call |-> [NoCall EXCEPT !.fn = fn, !.before = G, !.anc = anc, !.desc = desc]]

\* lines 205-208; the outcomes [graph, err, call]
solve_bubble(G, ancestor_node, descendant_node) ==
    IF ancestor_node \notin NodeSet(G) \/ descendant_node \notin NodeSet(G)
    THEN {NodeNotFound("solve_bubble", G, ancestor_node, descendant_node)}
    ELSE LET all_paths == all_simple_paths(G, ancestor_node, descendant_node)
             all_weigths == [i \in 1..Len(all_paths) |-> path_average_weight(G, all_paths[i])]
             all_length == [i \in 1..Len(all_paths) |-> Len(all_paths[i]) - 1]
         IN {Outcome("solve_bubble", G, ancestor_node, descendant_node,
                     all_paths, all_length, all_weigths, o) :
             o \in select_best_path(G, all_paths, all_length, all_weigths, FALSE, FALSE)}

\* lines 223-231 for one node: st = [anc, desc, bubble] are noeud_ancetre,
\* noeud_descendant and bubble; i, j index the pair of predecessors
RECURSIVE ScanPairs(_, _, _, _, _)
ScanPairs(G, st, node, i, j) ==
    LET preds == Predecessors(G, node)
        n == Len(preds)
    IN IF i > n THEN {st}
       ELSE IF j > n
       THEN (IF st.bubble THEN {st} ELSE ScanPairs(G, st, node, i + 1, i + 2))
       ELSE UNION {IF a # None
                   THEN {[anc |-> a, desc |-> node, bubble |-> TRUE]}
                   ELSE ScanPairs(G, [st EXCEPT !.anc = None], node, i, j + 1) :
                   a \in lowest_common_ancestor(G, preds[i], preds[j])}

\* lines 220-222: the loop over the nodes, which no break leaves
RECURSIVE ScanNodes(_, _, _)
ScanNodes(G, sts, k) ==
    IF k > Len(G.nodes) THEN sts
    ELSE IF Len(Predecessors(G, G.nodes[k])) > 1
    THEN ScanNodes(G, UNION {ScanPairs(G, st, G.nodes[k], 1, 2) : st \in sts}, k + 1)
    ELSE ScanNodes(G, sts, k + 1)

\* lines 217-231: the values of (noeud_ancetre, noeud_descendant, bubble) the
\* scan can end with
BubbleScan(G) == ScanNodes(G, {[anc |-> None, desc |-> None, bubble |-> FALSE]}, 1)

\* -------------------------------------------------------------- tip trimming
\* lines 243-245 / 267-269: the first node, in iteration order, with more than
\* one predecessor / successor; None when there is none
EntryTipNode(G) ==
    LET c == SelectSeq(G.nodes, LAMBDA n : Len(Predecessors(G, n)) > 1)
    IN IF c = <<>> THEN None ELSE c[1]
OutTipNode(G) ==
    LET c == SelectSeq(G.nodes, LAMBDA n : Len(Successors(G, n)) > 1)
    IN IF c = <<>> THEN None ELSE c[1]

\* lines 248-252 / 272-276: the first path of every non-empty path list, its
\* length and weight
TipCandidates(G, all) ==
    LET nonempty == SelectSeq(all, LAMBDA ps : Len(ps) > 0)
        paths == [i \in 1..Len(nonempty) |-> nonempty[i][1]]
        lengths == [i \in 1..Len(paths) |-> Len(paths[i]) - 1]
        weights == [i \in 1..Len(paths) |->
                      IF lengths[i] > 1 THEN path_average_weight(G, paths[i])
                      ELSE <<EdgeWeight(G, paths[i][1], paths[i][2]), 1>>]
    IN [paths |-> paths, lengths |-> lengths, weights |-> weights]

\* lines 246-255 for the node found; the outcomes [graph, err, call]
solve_entry_tips(G, starts, node) ==
    IF \E i \in 1..Len(starts) : starts[i] \notin NodeSet(G)
    THEN {NodeNotFound("solve_entry_tips", G, None, node)}
    ELSE LET c == TipCandidates(G, [i \in 1..Len(starts) |->
                                      all_simple_paths(G, starts[i], node)])
         IN {Outcome("solve_entry_tips", G, None, node, c.paths, c.lengths, c.weights, o) :
             o \in select_best_path(G, c.paths, c.lengths, c.weights, TRUE, FALSE)}

\* lines 270-279 for the node found
solve_out_tips(G, ends, node) ==
    IF \E i \in 1..Len(ends) : ends[i] \notin NodeSet(G)
    THEN {NodeNotFound("solve_out_tips", G, node, None)}
    ELSE LET c == TipCandidates(G, [i \in 1..Len(ends) |->
                                      all_simple_paths(G, node, ends[i])])
         IN {Outcome("solve_out_tips", G, node, None, c.paths, c.lengths, c.weights, o) :
             o \in select_best_path(G, c.paths, c.lengths, c.weights, FALSE, TRUE)}

\* ---------------------------------------------------------- contig extraction
\* Python's j[n:]
SliceFrom(j, n) ==
    IF n >= 0 THEN SubSeq(j, n + 1, Len(j))
    ELSE SubSeq(j, IF Len(j) + n + 1 < 1 THEN 1 ELSE Len(j) + n + 1, Len(j))

\* lines 326-329 with j[len(path[0]) - 2:] at line 328: one letter too many
RECURSIVE ContigOfLongSlice(_, _, _)
ContigOfLongSlice(path, sequence_str, k) ==
    IF k > Len(path) THEN <<sequence_str, Len(sequence_str)>>
    ELSE ContigOfLongSlice(path, sequence_str \o SliceFrom(path[k], Len(path[1]) - 2), k + 1)

\* lines 326-329
RECURSIVE ContigOf(_, _, _)
ContigOf(path, sequence_str, k) ==
    IF k > Len(path) THEN <<sequence_str, Len(sequence_str)>>
    ELSE ContigOf(path, sequence_str \o SliceFrom(path[k], Len(path[1]) - 1), k + 1)

\* lines 320-331
get_contigs(G, starts, ends) ==
    Flatten([s \in 1..Len(starts) |->
      Flatten([e \in 1..Len(ends) |->
        LET paths == all_simple_paths(G, starts[s], ends[e])
        IN [p \in 1..Len(paths) |-> ContigOf(paths[p], paths[p][1], 2)]])])

\* ------------------------------------------------------------ drawn inputs
\* the 2-mers without a repeated letter, in alphabetical order: with k = 2 the
\* nodes are the letters and every loop-free weighted digraph on them is a
\* k-mer dictionary
Kmers2 ==
    LET n == Len(Alphabet)
    IN SelectSeq([i \in 1..(n * n) |-> <<Alphabet[((i - 1) \div n) + 1],
                                         Alphabet[((i - 1) % n) + 1]>>],
                 LAMBDA km : km[1] # km[2])

Reverse(s) == [i \in 1..Len(s) |-> s[Len(s) + 1 - i]]

\* k-mer dictionaries of at most maxKmers 2-mers, counted 1..maxCount, inserted
\* in alphabetical order or its reverse, whose graph has no cycle (on a graph with a cycle
\* line 225 raises NetworkXError before anything is simplified)
KmerItems(S, c) ==
    LET o == SelectSeq(Kmers2, LAMBDA km : km \in S)
    IN [i \in 1..Len(o) |-> <<o[i], c[o[i]]>>]
Acyclic(S) == \A km \in S : <<km[2]>> \notin AncestorsClosure(
                  [nodes |-> <<>>, edges |-> SelectSeq([i \in 1..Len(Kmers2) |->
                      <<<<Kmers2[i][1]>>, <<Kmers2[i][2]>>, 1>>],
                      LAMBDA e : <<e[1][1], e[2][1]>> \in S)], {<<km[1]>>})
AcyclicKmerSets(maxKmers) ==
    {T \in SUBSET SeqToSet(Kmers2) : Cardinality(T) <= maxKmers /\ Acyclic(T)}

\* reads over A, C, G of 2..MaxReadLen letters, and the two reads of the
\* end-to-end example
ReadLetters == {"A", "C", "G"}
ReadPool == UNION {[1..n -> ReadLetters] : n \in 2..MaxReadLen}
ExampleReads ==
    << <<"A", "A", "C", "C", "G", "G", "T", "T">>,
       <<"C", "C", "G", "G", "T", "T", "A", "A">> >>
KmerSizes == {2, 3, 4}

PathCounts == {2, 3}
WeightDens == {1, 2}

\* ---------------------------------------------------- the pipeline (main)
Init ==
    /\ reads = <<>>
    /\ kmer_size = 2
    /\ \E S \in AcyclicKmerSets(MaxKmers) :
         \E c \in [S -> 1..MaxCount] :
            kmer_dict \in {KmerItems(S, c), Reverse(KmerItems(S, c))}
    /\ graph = EmptyGraph
    /\ pc = "build"
    /\ err = ""
    /\ starting_nodes = <<>>
    /\ ending_nodes = <<>>
    /\ call = NoCall
    /\ contigs = <<>>

\* line 383, followed by main's line 384, or by a direct call of
\* solve_entry_tips / solve_out_tips on the graph as built, with its starting /
\* sink nodes
BuildGraph ==
    /\ pc = "build"
    /\ graph' = build_graph(kmer_dict)
    /\ pc' \in {"bubbles", "entry", "out"}
    /\ starting_nodes' = IF pc' = "entry" THEN get_starting_nodes(graph') ELSE <<>>
    /\ ending_nodes' = IF pc' = "out" THEN get_sink_nodes(graph') ELSE <<>>
    /\ UNCHANGED <<reads, kmer_size, kmer_dict, err, call, contigs>>

\* lines 233, 256, 280: the function calls itself on the graph returned.  When
\* that is the graph it was given (select_best_path had one path and removed
\* nothing) the call repeats itself without end, and Python raises
\* RecursionError
Raised(G, o) ==
    IF o.err = "" /\ o.graph = G THEN "recursion: RecursionError" ELSE o.err

\* lines 232-233: a bubble was flagged, solve_bubble and recurse
SimplifyBubblesResolve ==
    /\ pc = "bubbles" /\ err = ""
    /\ \E st \in BubbleScan(graph) :
         /\ st.bubble
         /\ \E o \in solve_bubble(graph, st.anc, st.desc) :
              /\ graph' = o.graph
              /\ err' = Raised(graph, o)
              /\ call' = o.call
    /\ UNCHANGED <<reads, kmer_size, kmer_dict, pc, starting_nodes, ending_nodes, contigs>>

\* line 235 at the top level, then main's line 385
SimplifyBubblesReturn ==
    /\ pc = "bubbles" /\ err = ""
    /\ \E st \in BubbleScan(graph) : ~st.bubble
    /\ pc' = "entry"
    /\ starting_nodes' = get_starting_nodes(graph)
    /\ UNCHANGED <<reads, kmer_size, kmer_dict, graph, err, ending_nodes, call, contigs>>

\* lines 243-257: one pass that finds a node with several predecessors
SolveEntryTipsResolve ==
    /\ pc = "entry" /\ err = ""
    /\ EntryTipNode(graph) # None
    /\ \E o \in solve_entry_tips(graph, starting_nodes, EntryTipNode(graph)) :
         /\ graph' = o.graph
         /\ err' = Raised(graph, o)
         /\ call' = o.call
    /\ UNCHANGED <<reads, kmer_size, kmer_dict, pc, starting_nodes, ending_nodes, contigs>>

\* line 259 at the top level, then main's line 386
SolveEntryTipsReturn ==
    /\ pc = "entry" /\ err = ""
    /\ EntryTipNode(graph) = None
    /\ pc' = "out"
    /\ ending_nodes' = get_sink_nodes(graph)
    /\ UNCHANGED <<reads, kmer_size, kmer_dict, graph, err, starting_nodes, call, contigs>>

\* lines 267-281: one pass that finds a node with several successors
SolveOutTipsResolve ==
    /\ pc = "out" /\ err = ""
    /\ OutTipNode(graph) # None
    /\ \E o \in solve_out_tips(graph, ending_nodes, OutTipNode(graph)) :
         /\ graph' = o.graph
         /\ err' = Raised(graph, o)
         /\ call' = o.call
    /\ UNCHANGED <<reads, kmer_size, kmer_dict, pc, starting_nodes, ending_nodes, contigs>>

\* line 283 at the top level
SolveOutTipsReturn ==
    /\ pc = "out" /\ err = ""
    /\ OutTipNode(graph) = None
    /\ pc' = "contigs"
    /\ UNCHANGED <<reads, kmer_size, kmer_dict, graph, err, starting_nodes,
                   ending_nodes, call, contigs>>

\* line 387
GetContigs ==
    /\ pc = "contigs" /\ err = ""
    /\ contigs' = get_contigs(graph, get_starting_nodes(graph), get_sink_nodes(graph))
    /\ pc' = "done"
    /\ UNCHANGED <<reads, kmer_size, kmer_dict, graph, err,
                   starting_nodes, ending_nodes, call>>

Next ==
    \/ BuildGraph
    \/ SimplifyBubblesResolve
    \/ SimplifyBubblesReturn
    \/ SolveEntryTipsResolve
    \/ SolveEntryTipsReturn
    \/ SolveOutTipsResolve
    \/ SolveOutTipsReturn
    \/ GetContigs

Spec == Init /\ [][Next]_vars

\* ------------------------------------- reads to contigs (lines 382-383, 387)
InitContig ==
    /\ reads \in {<<r1, r2>> : r1 \in ReadPool, r2 \in ReadPool} \cup {ExampleReads}
    /\ kmer_size \in KmerSizes
    /\ kmer_dict = <<>>
    /\ graph = EmptyGraph
    /\ pc = "count"
    /\ err = ""
    /\ starting_nodes = <<>>
    /\ ending_nodes = <<>>
    /\ call = NoCall
    /\ contigs = <<>>

\* line 382
BuildKmerDict ==
    /\ pc = "count"
    /\ kmer_dict' = build_kmer_dict(reads, kmer_size)
    /\ pc' = "graph"
    /\ UNCHANGED <<reads, kmer_size, graph, err, starting_nodes, ending_nodes, call, contigs>>

\* line 383, the graph going to the contig extractor as built
BuildGraphOnly ==
    /\ pc = "graph"
    /\ graph' = build_graph(kmer_dict)
    /\ pc' = "contigs"
    /\ UNCHANGED <<reads, kmer_size, kmer_dict, err, starting_nodes, ending_nodes,
                   call, contigs>>

NextContig ==
    \/ BuildKmerDict
    \/ BuildGraphOnly
    \/ GetContigs

SpecContig == InitContig /\ [][NextContig]_vars

\* ------------------------------------------ the path selector on drawn lists
InitSelect ==
    /\ reads = <<>>
    /\ kmer_size = 2
    /\ kmer_dict = <<>>
    /\ graph = EmptyGraph
    /\ pc = "select"
    /\ err = ""
    /\ starting_nodes = <<>>
    /\ ending_nodes = <<>>
    /\ \E n \in PathCounts :
         \E ws \in [1..n -> (1..MaxNum) \X WeightDens], ls \in [1..n -> 1..MaxLen] :
            call = [NoCall EXCEPT !.fn = "select_best_path", !.weights = ws, !.lengths = ls]
    /\ contigs = <<>>

\* lines 171-179
SelectPath ==
    /\ pc = "select"
    /\ \E k \in selected_path_index(call.lengths, call.weights) :
         call' = [call EXCEPT !.selected = k]
    /\ pc' = "selected"
    /\ UNCHANGED <<reads, kmer_size, kmer_dict, graph, err, starting_nodes,
                   ending_nodes, contigs>>

NextSelect == SelectPath

SpecSelect == InitSelect /\ [][NextSelect]_vars

\* ==================================================================== claims
HasPathEdges(G, path) == \A i \in 1..(Len(path) - 1) : HasEdge(G, path[i], path[i + 1])
NoPathEdges(G, path) == \A i \in 1..(Len(path) - 1) : ~HasEdge(G, path[i], path[i + 1])
Resolved == call.fn \in {"solve_bubble", "solve_entry_tips", "solve_out_tips"}

\* C1: whenever select_best_path was called with two or more paths and has
\* returned, the selected path is in the graph with every one of its edges and
\* no edge of any other path is left.
C1_WinnerKeptLosersRemoved ==
    (Resolved /\ err = "" /\ Len(call.paths) >= 2) =>
        /\ HasPathEdges(graph, call.paths[call.selected])
        /\ \A i \in 1..Len(call.paths) :
             i # call.selected => NoPathEdges(graph, call.paths[i])

\* C2: with two or more paths, when the average weights are not all equal the
\* selected path has a maximal average weight; otherwise, when the lengths are
\* not all equal, it has a maximal length; with weights [5, 5, 1] and lengths
\* [3, 3, 3] the selected path is the first or the second.
C2_SelectsMaxWeightThenLength ==
    pc = "selected" =>
        LET ws == call.weights
            ls == call.lengths
            k == call.selected
            weightsDiffer == \E i \in 1..Len(ws) : ws[i][1] * ws[1][2] # ws[1][1] * ws[i][2]
            lengthsDiffer == \E i \in 1..Len(ls) : ls[i] # ls[1]
        IN /\ k \in 1..Len(ws)
           /\ weightsDiffer =>
                \A j \in 1..Len(ws) : ws[j][1] * ws[k][2] <= ws[k][1] * ws[j][2]
           /\ (~weightsDiffer /\ lengthsDiffer) => \A j \in 1..Len(ls) : ls[j] <= ls[k]
           /\ (ws = << <<5, 1>>, <<5, 1>>, <<1, 1>> >> /\ ls = <<3, 3, 3>>) => k \in {1, 2}

C2_Witness ==
    /\ pc = "selected"
    /\ call.weights = << <<5, 1>>, <<5, 1>>, <<1, 1>> >>
    /\ call.lengths = <<3, 3, 3>>
    /\ call.selected = 1

\* C3: get_contigs emits, for every simple path from a source to a sink,
\* exactly one contig: the first node's label followed by the last letter of
\* every further node, with its length (label length plus number of edges);
\* the reads AACCGGTT and CCGGTTAA with k = 4 give the one contig
\* ("AACCGGTTAA", 10).
LastLetters(path) == [i \in 1..(Len(path) - 1) |-> Last(path[i + 1])]
SourceSinkPaths(G) ==
    UNION {UNION {SeqToSet(all_simple_paths(G, s, t)) :
                  t \in {n \in NodeSet(G) : \A e \in SeqToSet(G.edges) : e[1] # n}} :
           s \in {n \in NodeSet(G) : \A e \in SeqToSet(G.edges) : e[2] # n}}
C3_ContigPerSourceSinkPath ==
    pc = "done" =>
        /\ Len(contigs) = Cardinality(SourceSinkPaths(graph))
        /\ \A p \in SourceSinkPaths(graph) :
             Cardinality({i \in 1..Len(contigs) :
                 contigs[i] = <<p[1] \o LastLetters(p), Len(p[1]) + Len(p) - 1>>}) = 1
        /\ (reads = ExampleReads /\ kmer_size = 4) =>
             contigs = << << <<"A", "A", "C", "C", "G", "G", "T", "T", "A", "A">>, 10 >> >>

C3_Witness ==
    /\ pc = "done"
    /\ reads = ExampleReads
    /\ kmer_size = 4
    /\ Len(contigs) = 1
    /\ contigs[1][2] = 10

\* C4: on an acyclic graph simplify_bubbles returns a graph (it does not end
\* in an exception), and every solve_bubble leaves the graph with fewer edges.
C4_SimplifyBubblesReturnsGraph ==
    (pc = "bubbles" /\ IsDag(graph)) =>
        /\ err = ""
        /\ call.fn = "solve_bubble" => NumEdges(graph) < NumEdges(call.before)

\* C5: solve_entry_tips and solve_out_tips return a graph (they do not end in
\* an exception or in endless recursion), and every resolution step leaves the
\* graph with fewer edges.
C5_TipsReturnGraph ==
    pc \in {"entry", "out"} =>
        /\ err = ""
        /\ call.fn \in {"solve_entry_tips", "solve_out_tips"} =>
             NumEdges(graph) < NumEdges(call.before)

\* C6: remove_paths never removes an edge that is not in the graph.
C6_NoAbsentEdgeRemoval == err # "remove_edge: NetworkXError"

\* C7: the graph that build_graph returns has no node of degree 0, and neither
\* has the graph after any remove_paths that returned.
DegreeZero(G) ==
    {n \in NodeSet(G) : \A e \in SeqToSet(G.edges) : e[1] # n /\ e[2] # n}
C7_NoIsolatedNode == (pc # "build" /\ err = "") => DegreeZero(graph) = {}

\* remove_paths took the last edges of a node, and the node with them
C7_Witness ==
    /\ call.fn = "solve_bubble" /\ err = "" /\ Len(call.paths) >= 2
    /\ NodeSet(call.before) \ NodeSet(graph) # {}
    /\ graph.edges # <<>>

\* C8: the ancestor passed to solve_bubble is a node of the graph and a lowest
\* common ancestor of two predecessors of the descendant passed with it.
C8_BubbleArgumentsConsistent ==
    call.fn = "solve_bubble" =>
        /\ call.anc \in NodeSet(call.before)
        /\ LET preds == Predecessors(call.before, call.desc)
           IN \E i, j \in 1..Len(preds) :
                /\ i < j
                /\ call.anc \in lowest_common_ancestor(call.before, preds[i], preds[j])

\* C9: in every pass of solve_entry_tips (solve_out_tips) that enumerates
\* candidate paths, every node of starting_nodes (ending_nodes) is a node of the
\* graph.
C9_TipEndpointsInGraph ==
    /\ (pc = "entry" /\ err = "" /\ EntryTipNode(graph) # None) =>
          \A i \in 1..Len(starting_nodes) : starting_nodes[i] \in NodeSet(graph)
    /\ (pc = "out" /\ err = "" /\ OutTipNode(graph) # None) =>
          \A i \in 1..Len(ending_nodes) : ending_nodes[i] \in NodeSet(graph)

\* C10: path_average_weight is the mean of the weights of the edges between
\* consecutive nodes of the path.
ConsecutiveMean(G, path) ==
    <<SumSeq([i \in 1..(Len(path) - 1) |-> EdgeWeight(G, path[i], path[i + 1])]),
      Len(path) - 1>>
C10_AverageOverPathEdges ==
    call.fn = "solve_bubble" =>
        \A i \in 1..Len(call.paths) :
            RatEq(call.weights[i], ConsecutiveMean(call.before, call.paths[i]))

====
